---- MODULE Spec2Model ----
(***************************************************************************)
(* A model of the draft client: the progress display of pkg/cmdline        *)
(* (Display, progress, Init, Stop) and the streaming rpc client (UpBuild,  *)
(* UpStream, up_build, up_stream).  Every goroutine is a process with a    *)
(* program counter; every channel operation is one step.                   *)
(***************************************************************************)
EXTENDS Integers, Sequences, FiniteSets, TLC

\* ------------------------------------------------------------------ bounds
\* Number of summaries the producer may put on Display's input channel.
MaxMsgs == 4
\* Number of messages the server may deliver on one stream.
MaxStream == 3
\* Number of requests the caller may put on UpStream's request channel.
MaxReq == 2

\* -------------------------------------------------------- program constants
\* cap of a stage's update channel: make(chan rpc.UpSummary_StatusCode, 1)
CodesCap == 1
\* cap of UpBuild's msgc: make(chan *UpMessage, 2)
MsgcCap == 2

\* The stage descriptors used by the producer.
Descs == {"build", "deploy"}
\* rpc.UpSummary_StatusCode, as the specification gives it.
StatusCodes == {"PENDING", "SUCCESS", "FAILURE"}
\* The value a receive on a closed update channel yields: the enum's zero.
ZeroCode == "PENDING"
\* The codes the specification calls terminal.
TerminalCodes == {"SUCCESS", "FAILURE"}

VARIABLES
  \* ---- Display (pkg/cmdline)
  dpc,          \* Display's main goroutine: select, send, defer, wait, returned
  sendTo,       \* the renderer whose channel the main loop is sending on (0: none)
  sendCode,     \* the code being sent
  nFed,         \* summaries received from the input channel so far
  inputClosed,  \* the producer closed the summaries channel
  ctxCancelled, \* the context given to Display was cancelled
  ongoing,      \* the map ongoing: descriptor -> renderer index (0: absent)
  visited,      \* descriptors the deferred range loop has been through
  rs,           \* the renderers started so far, in order of creation
  wg,           \* Display's sync.WaitGroup counter
  onceDone,     \* cli.once has run
  doneClosed,   \* number of close(cli.done) executed
  watch,        \* Init's watcher goroutines: wait, woken, exit
  crashed,      \* "no", or why the process died: "race" (map), "panic"
  termRecv,     \* history: descriptors for which a terminal code was received
  sink,         \* history: the terminal lines written, <<desc, "pass"|"fail">>
  lateWrite     \* history: a renderer wrote to the sink after Display returned

dvars == <<dpc, sendTo, sendCode, nFed, inputClosed, ctxCancelled, ongoing,
           visited, rs, wg, onceDone, doneClosed, watch, crashed, termRecv,
           sink, lateWrite>>

VARIABLES
  \* ---- UpBuild (rpc client)
  ubPc,         \* UpBuild's goroutine: connect, loop, sendout, returned
  ubPending,    \* the summary UpBuild is sending on outc
  ubG,          \* the goroutine running up_build: idle, open, recv, sendmsg,
                \* senderr, closeerrc, exit
  ubResp,       \* the message up_build is sending on msgc
  ubGErr,       \* the error up_build returned
  ubMsgc,       \* the buffer of msgc
  ubMsgcClosed, \* number of close(msgc) executed
  ubErrcClosed, \* number of close(errc) executed
  ubMsgcNil,    \* UpBuild has set its msgc to nil
  ubErrcNil,    \* UpBuild has set its errc to nil
  ubOut,        \* history: what the caller read from outc
  ubOutClosed,  \* number of close(outc) executed
  ubRet,        \* "none", or the error UpBuild returned ("nil": no error)
  ubDelivered,  \* history: the messages Recv returned
  ubStreamEnd,  \* how the stream ended: "open", "eof", "err"
  ubCancelled   \* the context given to UpBuild was cancelled

ubvars == <<ubPc, ubPending, ubG, ubResp, ubGErr, ubMsgc, ubMsgcClosed,
            ubErrcClosed, ubMsgcNil, ubErrcNil, ubOut, ubOutClosed, ubRet,
            ubDelivered, ubStreamEnd, ubCancelled>>

VARIABLES
  \* ---- UpStream (rpc client)
  usPc,         \* UpStream's goroutine: connect, open, loop, sending, closesend,
                \* waitdone, returned
  usF,          \* the goroutine ranging over msgc: idle, range, sendout, exit
  usFPending,   \* the summary that goroutine is sending on outc
  usR,          \* up_stream's receive goroutine: idle, recv, sendmsg, senderr, exit
  usRMsg,       \* the message the receive goroutine is sending on recv (msgc)
  usDoneClosed, \* number of close(done) executed
  usErrcClosed, \* number of close(errc) executed
  usMsgcClosed, \* number of close(recv) executed
  usOutClosed,  \* number of close(outc) executed
  usNReq,       \* requests the send loop has taken from the request channel
  usReqClosed,  \* the caller closed the request channel
  usCloseSent,  \* stream.CloseSend() was called
  usSendFailed, \* history: stream.Send returned an error
  usDelivered,  \* history: the messages Recv returned
  usStreamEnd,  \* how the stream ended for Recv: "open", "eof", "err"
  usOut,        \* history: what the caller read from outc
  usRet,        \* "none", or the error UpStream returned ("nil": no error)
  usCancelled   \* the context given to UpStream was cancelled

usvars == <<usPc, usF, usFPending, usR, usRMsg, usDoneClosed, usErrcClosed,
            usMsgcClosed, usOutClosed, usNReq, usReqClosed, usCloseSent,
            usSendFailed, usDelivered, usStreamEnd, usOut, usRet, usCancelled>>

VARIABLES
  \* ---- Store.DeleteBuild (kube storage)
  store,        \* the config maps: application -> Data (build id -> content),
                \* or NoMap
  sPc,          \* DeleteBuild: idle, got, update, done
  sApp,         \* its appName
  sId,          \* its buildID
  sCfg,         \* cfgmap.Data, the copy Get returned
  sObj,         \* the object it returns (NoObject: nil)
  sErr,         \* the error it returns ("nil": none)
  sUpdates,     \* number of Update calls it issued
  sBefore       \* history: the config maps when it was called

stvars == <<store, sPc, sApp, sId, sCfg, sObj, sErr, sUpdates, sBefore>>

vars == <<dvars, ubvars, usvars, stvars>>

\* ------------------------------------------------------------------ helpers
\* The nil *UpSummary, and the nil *UpMessage of a goroutine holding none.
NilSummary == <<"nil", 0>>
NoMessage == [n |-> 0, kind |-> "none"]

\* A reader whose switch has no case left out: every code but SUCCESS ends
\* the stage as a failure.
FinalMsgNoDefault(code) ==
  IF code = "SUCCESS" THEN "pass" ELSE "fail"

\* The switch of progress's reader goroutine: the final message a code yields.
FinalMsg(code) ==
  IF code = "SUCCESS" THEN "pass"
  ELSE IF code = "FAILURE" THEN "fail"
  ELSE "none"

\* A Stop that closes cli.done on every call.
StopNoOnce ==
  /\ onceDone' = TRUE
  /\ doneClosed' = doneClosed + 1

\* cli.Stop: close(cli.done) under cli.once.
Stop ==
  /\ onceDone' = TRUE
  /\ doneClosed' = IF onceDone THEN doneClosed ELSE doneClosed + 1

\* A channel that hands the newest value out first.
ChanSendFront(ch, v) == <<v>> \o ch

\* ch <- v on a buffered channel with room: v goes behind the values queued.
ChanSend(ch, v) == Append(ch, v)

\* A new render state: the channel c, and the goroutine running progress.
NewRenderer(d) ==
  [desc |-> d, buf |-> <<>>, closed |-> 0, inner |-> "run", done |-> "open",
   outer |-> "spin", rcv |-> <<>>, fwd |-> <<>>, got |-> <<>>,
   late |-> \E k \in 1..Len(sink) : sink[k][1] = d]

\* Renderers in the middle of delete(ongoing, desc).
Deleting == {i \in 1..Len(rs) : rs[i].outer = "deleting"}

Alive == crashed = "no"

DisplayInit ==
  /\ dpc = "select"
  /\ sendTo = 0
  /\ sendCode = ZeroCode
  /\ nFed = 0
  /\ inputClosed = FALSE
  /\ ctxCancelled = FALSE
  /\ ongoing = [d \in Descs |-> 0]
  /\ visited = {}
  /\ rs = <<>>
  /\ wg = 0
  /\ onceDone = FALSE
  /\ doneClosed = 0
  /\ watch = "wait"
  /\ crashed = "no"
  /\ termRecv = [d \in Descs |-> FALSE]
  /\ sink = <<>>
  /\ lateWrite = FALSE

UpBuildInit ==
  /\ ubPc = "connect"
  /\ ubPending = NilSummary
  /\ ubG = "idle"
  /\ ubResp = NoMessage
  /\ ubGErr = "nil"
  /\ ubMsgc = <<>>
  /\ ubMsgcClosed = 0
  /\ ubErrcClosed = 0
  /\ ubMsgcNil = FALSE
  /\ ubErrcNil = FALSE
  /\ ubOut = <<>>
  /\ ubOutClosed = 0
  /\ ubRet = "none"
  /\ ubDelivered = <<>>
  /\ ubStreamEnd = "open"
  /\ ubCancelled = FALSE

UpStreamInit ==
  /\ usPc = "connect"
  /\ usF = "idle"
  /\ usFPending = NilSummary
  /\ usR = "idle"
  /\ usRMsg = NoMessage
  /\ usDoneClosed = 0
  /\ usErrcClosed = 0
  /\ usMsgcClosed = 0
  /\ usOutClosed = 0
  /\ usNReq = 0
  /\ usReqClosed = FALSE
  /\ usCloseSent = FALSE
  /\ usSendFailed = FALSE
  /\ usDelivered = <<>>
  /\ usStreamEnd = "open"
  /\ usOut = <<>>
  /\ usRet = "none"
  /\ usCancelled = FALSE

\* The applications and build ids of the store.
Apps == {"app1", "app2"}
BuildIDs == {"b1", "b2"}

\* A storage.Object, and the nil *storage.Object.
Object(app, id) == [app |-> app, id |-> id]
NoObject == [app |-> "", id |-> ""]

\* storage.EncodeToString, and a content that is no encoding of an object.
EncodeToString(obj) == <<"enc", obj>>
Corrupt == <<"bad", NoObject>>

\* storage.DecodeString: the object, or an error.
DecodeString(content) ==
  IF content[1] = "enc" THEN [ok |-> TRUE, obj |-> content[2]]
  ELSE [ok |-> FALSE, obj |-> NoObject]

\* An application without a config map.
NoMap == [none \in {"none"} |-> Corrupt]

\* The Data a config map of application app may hold: some of the build ids,
\* each with an encoded object or with a content that does not decode.
DataOf(app) ==
  UNION {[ids -> {Corrupt} \cup {EncodeToString(Object(app, id)) : id \in BuildIDs}]
           : ids \in SUBSET BuildIDs}

\* The store holds config maps written before the call, by this client or by
\* another; an entry made by CreateBuild is the encoding of its object.
StoreInit ==
  /\ store \in [Apps -> UNION {DataOf(app) : app \in Apps} \cup {NoMap}]
  /\ \A app \in Apps : store[app] \in DataOf(app) \cup {NoMap}
  /\ \A app \in Apps : \A id \in DOMAIN store[app] :
        store[app][id] \in {Corrupt, EncodeToString(Object(app, id))}
  /\ sPc = "idle"
  /\ sApp = ""
  /\ sId = ""
  /\ sCfg = NoMap
  /\ sObj = NoObject
  /\ sErr = "nil"
  /\ sUpdates = 0
  /\ sBefore = store

\* The store at rest, for the runs of the other operations.
StoreIdle ==
  /\ store = [app \in Apps |-> NoMap]
  /\ sPc = "idle"
  /\ sApp = ""
  /\ sId = ""
  /\ sCfg = NoMap
  /\ sObj = NoObject
  /\ sErr = "nil"
  /\ sUpdates = 0
  /\ sBefore = store

Init == DisplayInit /\ UpBuildInit /\ UpStreamInit /\ StoreIdle

\* ------------------------------------------------------------ Display: main
\* The producer can hand a summary to the select of the main loop.
CanReceive == Alive /\ dpc = "select" /\ ~inputClosed /\ nFed < MaxMsgs

\* A lookup that never finds the descriptor.
AbsentAlways(d) == TRUE

\* c, ok := ongoing[summary.StageDesc]; !ok
Absent(d) == ongoing[d] = 0

\* case summary := <-summaries, descriptor not in ongoing: a new channel and a
\* new renderer goroutine; the summary's code is not forwarded.
MainRecvNew(d, code) ==
  /\ CanReceive
  /\ Absent(d)
  /\ nFed' = nFed + 1
  /\ termRecv' = [termRecv EXCEPT ![d] = @ \/ code \in TerminalCodes]
  /\ rs' = Append(rs, NewRenderer(d))
  /\ ongoing' = [ongoing EXCEPT ![d] = Len(rs) + 1]
  /\ wg' = wg + 1
  /\ UNCHANGED <<ubvars, usvars, stvars, dpc, sendTo, sendCode, inputClosed, ctxCancelled, visited,
                 onceDone, doneClosed, watch, crashed, sink, lateWrite>>

\* case summary := <-summaries, descriptor in ongoing: go on to c <- code.
MainRecvOld(d, code) ==
  /\ CanReceive
  /\ ~Absent(d)
  /\ nFed' = nFed + 1
  /\ termRecv' = [termRecv EXCEPT ![d] = @ \/ code \in TerminalCodes]
  /\ dpc' = "send"
  /\ sendTo' = ongoing[d]
  /\ sendCode' = code
  /\ rs' = [rs EXCEPT ![ongoing[d]].rcv = Append(@, code)]
  /\ UNCHANGED <<ubvars, usvars, stvars, inputClosed, ctxCancelled, ongoing,
                 visited, wg, onceDone, doneClosed, watch, crashed, sink,
                 lateWrite>>

\* The lookup or the assignment of the main loop runs while a renderer is
\* inside delete(ongoing, desc): the runtime may end the process.
MainRecvFatal(d, code) ==
  /\ CanReceive
  /\ Deleting # {}
  /\ nFed' = nFed + 1
  /\ termRecv' = [termRecv EXCEPT ![d] = @ \/ code \in TerminalCodes]
  /\ crashed' = "race"
  /\ UNCHANGED <<ubvars, usvars, stvars, dpc, sendTo, sendCode, inputClosed, ctxCancelled, ongoing,
                 visited, rs, wg, onceDone, doneClosed, watch, sink, lateWrite>>

\* c <- summary.StatusCode completes: the channel has room (or its reader waits).
MainSend ==
  /\ Alive
  /\ dpc = "send"
  /\ Len(rs[sendTo].buf) < CodesCap
  /\ rs' = [rs EXCEPT ![sendTo].buf = ChanSend(@, sendCode),
                       ![sendTo].fwd = Append(@, sendCode)]
  /\ dpc' = "select"
  /\ sendTo' = 0
  /\ sendCode' = ZeroCode
  /\ UNCHANGED <<ubvars, usvars, stvars, nFed, inputClosed, ctxCancelled, ongoing, visited, wg, onceDone,
                 doneClosed, watch, crashed, termRecv, sink, lateWrite>>

\* case summary, ok := <-summaries with ok false: return.
MainInputClosed ==
  /\ Alive
  /\ dpc = "select"
  /\ inputClosed
  /\ dpc' = "defer"
  /\ UNCHANGED <<ubvars, usvars, stvars, sendTo, sendCode, nFed, inputClosed, ctxCancelled, ongoing,
                 visited, rs, wg, onceDone, doneClosed, watch, crashed, termRecv,
                 sink, lateWrite>>

\* case <-cli.Done(): return.
MainDone ==
  /\ Alive
  /\ dpc = "select"
  /\ doneClosed > 0
  /\ dpc' = "defer"
  /\ UNCHANGED <<ubvars, usvars, stvars, sendTo, sendCode, nFed, inputClosed, ctxCancelled, ongoing,
                 visited, rs, wg, onceDone, doneClosed, watch, crashed, termRecv,
                 sink, lateWrite>>

\* The deferred function, one round of: for _, c := range ongoing { close(c) }.
DeferCloseOne(d) ==
  /\ Alive
  /\ dpc = "defer"
  /\ ongoing[d] # 0
  /\ d \notin visited
  /\ visited' = visited \cup {d}
  /\ rs' = [rs EXCEPT ![ongoing[d]].closed = @ + 1]
  /\ crashed' = IF rs[ongoing[d]].closed > 0 THEN "panic" ELSE crashed
  /\ UNCHANGED <<ubvars, usvars, stvars, dpc, sendTo, sendCode, nFed, inputClosed, ctxCancelled, ongoing,
                 wg, onceDone, doneClosed, watch, termRecv, sink, lateWrite>>

\* The range loop runs while a renderer is inside delete(ongoing, desc).
DeferFatal ==
  /\ Alive
  /\ dpc = "defer"
  /\ Deleting # {}
  /\ crashed' = "race"
  /\ UNCHANGED <<ubvars, usvars, stvars, dpc, sendTo, sendCode, nFed, inputClosed, ctxCancelled, ongoing,
                 visited, rs, wg, onceDone, doneClosed, watch, termRecv, sink,
                 lateWrite>>

\* The range loop is over: cli.Stop(), then wg.Wait() is next.
DeferStop ==
  /\ Alive
  /\ dpc = "defer"
  /\ \A d \in Descs : ongoing[d] = 0 \/ d \in visited
  /\ Stop
  /\ dpc' = "wait"
  /\ UNCHANGED <<ubvars, usvars, stvars, sendTo, sendCode, nFed, inputClosed, ctxCancelled, ongoing,
                 visited, rs, wg, watch, crashed, termRecv, sink, lateWrite>>

\* A Display that does not wait for its renderers.
WaitReturnsAtOnce == TRUE

\* wg.Wait() returns when the counter is zero.
WaitReturns == wg = 0

\* wg.Wait() returns, and Display with it.
MainWait ==
  /\ Alive
  /\ dpc = "wait"
  /\ WaitReturns
  /\ dpc' = "returned"
  /\ UNCHANGED <<ubvars, usvars, stvars, sendTo, sendCode, nFed, inputClosed, ctxCancelled, ongoing,
                 visited, rs, wg, onceDone, doneClosed, watch, crashed, termRecv,
                 sink, lateWrite>>

\* ------------------------------------------------- Display: cmdline.Init
\* Init's first goroutine: select on rootctx.Done() and cli.Done(), cancel().
WatcherWake ==
  /\ Alive
  /\ watch = "wait"
  /\ ctxCancelled \/ doneClosed > 0
  /\ watch' = "woken"
  /\ UNCHANGED <<ubvars, usvars, stvars, dpc, sendTo, sendCode, nFed, inputClosed, ctxCancelled, ongoing,
                 visited, rs, wg, onceDone, doneClosed, crashed, termRecv, sink,
                 lateWrite>>

\* Init's second goroutine, after wg.Wait(): cli.Stop().
WatcherStop ==
  /\ Alive
  /\ watch = "woken"
  /\ Stop
  /\ watch' = "exit"
  /\ UNCHANGED <<ubvars, usvars, stvars, dpc, sendTo, sendCode, nFed, inputClosed, ctxCancelled, ongoing,
                 visited, rs, wg, crashed, termRecv, sink, lateWrite>>

\* ------------------------------------------------------ progress: the reader
\* What the reader goroutine does with a code: a terminal code puts the final
\* message on done and returns (the deferred close(done) follows at once).
ReaderAfter(r, code) ==
  IF FinalMsg(code) = "none" THEN r
  ELSE [r EXCEPT !.inner = "exit", !.done = FinalMsg(code)]

\* case code := <-codes, a code is buffered.
InnerRecv(i) ==
  /\ Alive
  /\ rs[i].inner = "run"
  /\ rs[i].buf # <<>>
  /\ rs' = [rs EXCEPT ![i] =
               ReaderAfter([@ EXCEPT !.buf = Tail(@),
                                     !.got = Append(@, Head(rs[i].buf))],
                           Head(rs[i].buf))]
  /\ UNCHANGED <<ubvars, usvars, stvars, dpc, sendTo, sendCode, nFed, inputClosed, ctxCancelled, ongoing,
                 visited, wg, onceDone, doneClosed, watch, crashed, termRecv, sink,
                 lateWrite>>

\* case code := <-codes, the channel is closed and empty: the zero value.
InnerRecvClosed(i) ==
  /\ Alive
  /\ rs[i].inner = "run"
  /\ rs[i].buf = <<>>
  /\ rs[i].closed > 0
  /\ rs' = [rs EXCEPT ![i] = ReaderAfter(@, ZeroCode)]
  /\ UNCHANGED <<ubvars, usvars, stvars, dpc, sendTo, sendCode, nFed, inputClosed, ctxCancelled, ongoing,
                 visited, wg, onceDone, doneClosed, watch, crashed, termRecv, sink,
                 lateWrite>>

\* case <-cli.Done(): return, and the deferred close(done).
InnerDone(i) ==
  /\ Alive
  /\ rs[i].inner = "run"
  /\ doneClosed > 0
  /\ rs' = [rs EXCEPT ![i].inner = "exit", ![i].done = "closed"]
  /\ UNCHANGED <<ubvars, usvars, stvars, dpc, sendTo, sendCode, nFed, inputClosed, ctxCancelled, ongoing,
                 visited, wg, onceDone, doneClosed, watch, crashed, termRecv, sink,
                 lateWrite>>

\* ------------------------------------------------- progress: the spinner loop
\* default: one spinner frame written to the sink.
OuterSpin(i) ==
  /\ Alive
  /\ rs[i].outer = "spin"
  /\ rs[i].done = "open"
  /\ lateWrite' = (lateWrite \/ dpc = "returned")
  /\ UNCHANGED <<ubvars, usvars, stvars, dpc, sendTo, sendCode, nFed, inputClosed, ctxCancelled, ongoing,
                 visited, rs, wg, onceDone, doneClosed, watch, crashed, termRecv,
                 sink>>

\* case msg := <-done: "\r" and msg are written, progress returns.  msg is the
\* final line, or empty when done was closed without one.
OuterFinal(i) ==
  /\ Alive
  /\ rs[i].outer = "spin"
  /\ rs[i].done # "open"
  /\ sink' = IF rs[i].done \in {"pass", "fail"}
             THEN Append(sink, <<rs[i].desc, rs[i].done>>)
             ELSE sink
  /\ lateWrite' = (lateWrite \/ dpc = "returned")
  /\ rs' = [rs EXCEPT ![i].outer = "delete"]
  /\ UNCHANGED <<ubvars, usvars, stvars, dpc, sendTo, sendCode, nFed, inputClosed, ctxCancelled, ongoing,
                 visited, wg, onceDone, doneClosed, watch, crashed, termRecv>>

\* delete(ongoing, desc) begins, in the renderer's goroutine.
DeleteBegin(i) ==
  /\ Alive
  /\ rs[i].outer = "delete"
  /\ rs' = [rs EXCEPT ![i].outer = "deleting"]
  /\ UNCHANGED <<ubvars, usvars, stvars, dpc, sendTo, sendCode, nFed, inputClosed, ctxCancelled, ongoing,
                 visited, wg, onceDone, doneClosed, watch, crashed, termRecv, sink,
                 lateWrite>>

\* delete(ongoing, desc) begins while another renderer is inside its delete.
DeleteFatal(i) ==
  /\ Alive
  /\ rs[i].outer = "delete"
  /\ Deleting # {}
  /\ crashed' = "race"
  /\ UNCHANGED <<ubvars, usvars, stvars, dpc, sendTo, sendCode, nFed, inputClosed, ctxCancelled, ongoing,
                 visited, rs, wg, onceDone, doneClosed, watch, termRecv, sink,
                 lateWrite>>

\* delete(ongoing, desc) ends, then wg.Done().
DeleteEnd(i) ==
  /\ Alive
  /\ rs[i].outer = "deleting"
  /\ ongoing' = [ongoing EXCEPT ![rs[i].desc] = 0]
  /\ rs' = [rs EXCEPT ![i].outer = "exit"]
  /\ wg' = wg - 1
  /\ UNCHANGED <<ubvars, usvars, stvars, dpc, sendTo, sendCode, nFed, inputClosed, ctxCancelled, visited,
                 onceDone, doneClosed, watch, crashed, termRecv, sink, lateWrite>>

\* ------------------------------------------------- Display: the environment
\* Display is in its for/select loop (what the environment does later it never
\* observes).
InLoop == dpc \in {"select", "send"}

\* The producer closes the summaries channel.
CloseInput ==
  /\ Alive
  /\ InLoop
  /\ ~inputClosed
  /\ inputClosed' = TRUE
  /\ UNCHANGED <<ubvars, usvars, stvars, dpc, sendTo, sendCode, nFed, ctxCancelled, ongoing, visited, rs,
                 wg, onceDone, doneClosed, watch, crashed, termRecv, sink,
                 lateWrite>>

\* The context given to Display is cancelled.
CancelCtx ==
  /\ Alive
  /\ InLoop
  /\ ~ctxCancelled
  /\ ctxCancelled' = TRUE
  /\ UNCHANGED <<ubvars, usvars, stvars, dpc, sendTo, sendCode, nFed, inputClosed, ongoing, visited, rs,
                 wg, onceDone, doneClosed, watch, crashed, termRecv, sink,
                 lateWrite>>

DisplayNext ==
  \/ \E d \in Descs, code \in StatusCodes : MainRecvNew(d, code)
  \/ \E d \in Descs, code \in StatusCodes : MainRecvOld(d, code)
  \/ \E d \in Descs, code \in StatusCodes : MainRecvFatal(d, code)
  \/ MainSend
  \/ MainInputClosed
  \/ MainDone
  \/ \E d \in Descs : DeferCloseOne(d)
  \/ DeferFatal
  \/ DeferStop
  \/ MainWait
  \/ WatcherWake
  \/ WatcherStop
  \/ \E i \in 1..Len(rs) : InnerRecv(i)
  \/ \E i \in 1..Len(rs) : InnerRecvClosed(i)
  \/ \E i \in 1..Len(rs) : InnerDone(i)
  \/ \E i \in 1..Len(rs) : OuterSpin(i)
  \/ \E i \in 1..Len(rs) : OuterFinal(i)
  \/ \E i \in 1..Len(rs) : DeleteBegin(i)
  \/ \E i \in 1..Len(rs) : DeleteFatal(i)
  \/ \E i \in 1..Len(rs) : DeleteEnd(i)
  \/ CloseInput
  \/ CancelCtx

DisplaySpec == Init /\ [][DisplayNext]_vars

\* Weak fairness of every step the program takes on its own: the goroutines of
\* Display are scheduled, and a select with a ready case takes one.  Nothing
\* is asked of the producer or of the context.
DisplayFairness ==
  /\ WF_vars(MainSend)
  /\ WF_vars(MainInputClosed)
  /\ WF_vars(MainDone)
  /\ WF_vars(\E d \in Descs : DeferCloseOne(d))
  /\ WF_vars(DeferStop)
  /\ WF_vars(MainWait)
  /\ WF_vars(WatcherWake)
  /\ WF_vars(WatcherStop)
  /\ \A i \in 1..MaxMsgs :
       /\ WF_vars(i <= Len(rs) /\ (InnerRecv(i) \/ InnerDone(i)))
       /\ WF_vars(i <= Len(rs) /\ (OuterFinal(i) \/ DeleteBegin(i) \/ DeleteEnd(i)))

DisplayFairSpec == Init /\ [][DisplayNext]_vars /\ DisplayFairness

\* ------------------------------------------------------- claims on Display
\* The number of terminal lines written for descriptor d.
LinesFor(d) == Cardinality({k \in 1..Len(sink) : sink[k][1] = d})

\* C1: when Display has returned, each descriptor has exactly one terminal
\* line if a terminal code was received for it, and none otherwise.
C1_OneLineIffTerminal ==
  dpc = "returned" =>
    \A d \in Descs : LinesFor(d) = (IF termRecv[d] THEN 1 ELSE 0)

\* C2: no render state is created for a descriptor whose final line has been
\* written, and no descriptor gets a second terminal line.
C2_IdempotentFinalization ==
  /\ \A i \in 1..Len(rs) : ~rs[i].late
  /\ \A d \in Descs : LinesFor(d) <= 1

\* C3: once the input is closed or the context cancelled, Display eventually
\* returns (a process the runtime ended for a map race is set aside).
C3_DisplayReturns ==
  (inputClosed \/ ctxCancelled) ~> (dpc = "returned" \/ ~Alive)

\* C4: a descriptor for which no terminal code was ever received has no
\* terminal line, whatever happened to its update channel.
C4_NoLineWithoutTerminal ==
  \A d \in Descs : ~termRecv[d] => LinesFor(d) = 0

\* Display returned after closing the channel of a stage that never got a
\* terminal code, and that stage's renderer has exited.
C4_Witness ==
  /\ dpc = "returned"
  /\ \E i \in 1..Len(rs) :
       /\ rs[i].closed > 0
       /\ rs[i].outer = "exit"
       /\ ~termRecv[rs[i].desc]

\* C5: no renderer writes to the sink after Display has returned, and none
\* is left that could.
C5_NoWriteAfterReturn ==
  /\ ~lateWrite
  /\ dpc = "returned" => \A i \in 1..Len(rs) : rs[i].outer = "exit"

\* Display returned after renderers had written final lines and after it
\* had closed the channel of a renderer still spinning.
C5_Witness ==
  /\ dpc = "returned"
  /\ sink # <<>>
  /\ \E i \in 1..Len(rs) : rs[i].closed > 0

\* Display with nothing assumed but the scheduling of Init's two goroutines.
\* C15: the map ongoing is read and written by the main loop's goroutine only:
\* no access of the main loop (lookup, assignment, deferred range) and no
\* other delete ever runs while a renderer goroutine is inside
\* delete(ongoing, desc).
C15_NoConcurrentMapAccess == crashed # "race"

\* C16: every send of the main loop on a stage's update channel eventually
\* completes (a process the runtime ended for a map race is set aside).
C16_SendCompletes ==
  (dpc = "send") ~> (dpc # "send" \/ ~Alive)

\* The renderers of descriptor d whose goroutine has not finished.
LiveFor(d) == {i \in 1..Len(rs) : rs[i].desc = d /\ rs[i].outer # "exit"}

\* C17: a descriptor has at most one live render state at any time, and it is
\* the one the map ongoing holds for it.
C17_OneLiveStatePerStage ==
  \A d \in Descs :
    /\ Cardinality(LiveFor(d)) <= 1
    /\ \A i \in LiveFor(d) : ongoing[d] = i

\* A finalized descriptor got a second render state, which is running, and
\* the first one is gone.
C17_Witness ==
  \E i, j \in 1..Len(rs) :
    /\ i < j
    /\ rs[i].desc = rs[j].desc
    /\ rs[i].outer = "exit"
    /\ rs[i].done \in {"pass", "fail"}
    /\ rs[j].late
    /\ rs[j].outer = "spin"
    /\ rs[j].buf # <<>>

InitFairSpec ==
  Init /\ [][DisplayNext]_vars /\ WF_vars(WatcherWake) /\ WF_vars(WatcherStop)

\* C13: cli.done is closed at most once and nothing panics, however the Stop
\* of Init's goroutine, the deferred Stop of Display and the cancellation of
\* the root context interleave; and once the root context is cancelled or
\* Stop has been called, cli.done is eventually closed (in a process still
\* running).
C13_StopIdempotent ==
  /\ [](doneClosed <= 1 /\ crashed # "panic")
  /\ [](onceDone => doneClosed = 1)
  /\ (ctxCancelled \/ onceDone) ~> (doneClosed = 1 \/ ~Alive)

\* Both Stop calls have run, the deferred one of Display and the one of Init's
\* goroutine, after the root context was cancelled.
C13_Witness ==
  /\ ctxCancelled
  /\ watch = "exit"
  /\ dpc \in {"wait", "returned"}
  /\ doneClosed = 1

\* ================================================================ UpBuild
\* The payloads a server message may carry.
MsgKinds == {"summary", "other"}

\* The n-th message of a stream, with its payload.
Message(n, kind) == [n |-> n, kind |-> kind]

\* msg.GetUpSummary(): the summary a message carries, nil when its payload is
\* something else.
GetUpSummary(msg) ==
  IF msg.kind = "summary" THEN <<"summary", msg.n>> ELSE NilSummary

\* The summaries of a sequence of messages, one for one.
Summaries(msgs) == [k \in 1..Len(msgs) |-> GetUpSummary(msgs[k])]

\* A loop that goes on only while both channels are open.
UBLoopCondBoth == ~ubMsgcNil /\ ~ubErrcNil

\* for msgc != nil || errc != nil
UBLoopCond == ~ubMsgcNil \/ ~ubErrcNil

\* connect(c) fails: UpBuild returns the error.
UBConnectFail ==
  /\ ubPc = "connect"
  /\ ubPc' = "returned"
  /\ ubRet' = "connect"
  /\ UNCHANGED <<dvars, usvars, stvars, ubPending, ubG, ubResp, ubGErr, ubMsgc, ubMsgcClosed,
                 ubErrcClosed, ubMsgcNil, ubErrcNil, ubOut, ubOutClosed,
                 ubDelivered, ubStreamEnd, ubCancelled>>

\* connect(c) succeeds: msgc, errc, the goroutine; defer close(outc).
UBConnectOk ==
  /\ ubPc = "connect"
  /\ ubPc' = "loop"
  /\ ubG' = "open"
  /\ UNCHANGED <<dvars, usvars, stvars, ubPending, ubResp, ubGErr, ubMsgc, ubMsgcClosed,
                 ubErrcClosed, ubMsgcNil, ubErrcNil, ubOut, ubOutClosed, ubRet,
                 ubDelivered, ubStreamEnd, ubCancelled>>

\* up_build: rpc.UpBuild fails; the error goes to errc, msgc stays open.
UBOpenFail ==
  /\ ubG = "open"
  /\ ubG' = "senderr"
  /\ ubGErr' = "open"
  /\ UNCHANGED <<dvars, usvars, stvars, ubPc, ubPending, ubResp, ubMsgc, ubMsgcClosed,
                 ubErrcClosed, ubMsgcNil, ubErrcNil, ubOut, ubOutClosed, ubRet,
                 ubDelivered, ubStreamEnd, ubCancelled>>

\* up_build: rpc.UpBuild succeeds; defer close(outc) (outc is msgc).
UBOpenOk ==
  /\ ubG = "open"
  /\ ubG' = "recv"
  /\ UNCHANGED <<dvars, usvars, stvars, ubPc, ubPending, ubResp, ubGErr, ubMsgc, ubMsgcClosed,
                 ubErrcClosed, ubMsgcNil, ubErrcNil, ubOut, ubOutClosed, ubRet,
                 ubDelivered, ubStreamEnd, ubCancelled>>

\* up_build: s.Recv() returns a message.
UBRecvMsg(kind) ==
  /\ ubG = "recv"
  /\ Len(ubDelivered) < MaxStream
  /\ ubResp' = Message(Len(ubDelivered) + 1, kind)
  /\ ubDelivered' = Append(ubDelivered, ubResp')
  /\ ubG' = "sendmsg"
  /\ UNCHANGED <<dvars, usvars, stvars, ubPc, ubPending, ubGErr, ubMsgc, ubMsgcClosed,
                 ubErrcClosed, ubMsgcNil, ubErrcNil, ubOut, ubOutClosed, ubRet,
                 ubStreamEnd, ubCancelled>>

\* up_build: outc <- resp completes when msgc has room.
UBForward ==
  /\ ubG = "sendmsg"
  /\ Len(ubMsgc) < MsgcCap
  /\ ubMsgc' = ChanSend(ubMsgc, ubResp)
  /\ ubResp' = NoMessage
  /\ ubG' = "recv"
  /\ UNCHANGED <<dvars, usvars, stvars, ubPc, ubPending, ubGErr, ubMsgcClosed, ubErrcClosed,
                 ubMsgcNil, ubErrcNil, ubOut, ubOutClosed, ubRet, ubDelivered,
                 ubStreamEnd, ubCancelled>>

\* up_build: s.Recv() returns io.EOF; return nil, the deferred close(msgc).
UBRecvEOF ==
  /\ ubG = "recv"
  /\ ubStreamEnd' = "eof"
  /\ ubMsgcClosed' = ubMsgcClosed + 1
  /\ ubG' = "closeerrc"
  /\ UNCHANGED <<dvars, usvars, stvars, ubPc, ubPending, ubResp, ubGErr, ubMsgc, ubErrcClosed,
                 ubMsgcNil, ubErrcNil, ubOut, ubOutClosed, ubRet, ubDelivered,
                 ubCancelled>>

\* up_build: s.Recv() returns an error; return it, the deferred close(msgc).
UBRecvErr ==
  /\ ubG = "recv"
  /\ ubStreamEnd' = "err"
  /\ ubMsgcClosed' = ubMsgcClosed + 1
  /\ ubGErr' = "recv"
  /\ ubG' = "senderr"
  /\ UNCHANGED <<dvars, usvars, stvars, ubPc, ubPending, ubResp, ubMsgc, ubErrcClosed,
                 ubMsgcNil, ubErrcNil, ubOut, ubOutClosed, ubRet, ubDelivered,
                 ubCancelled>>

\* The goroutine's close(errc).
UBCloseErrc ==
  /\ ubG = "closeerrc"
  /\ ubErrcClosed' = ubErrcClosed + 1
  /\ ubG' = "exit"
  /\ UNCHANGED <<dvars, usvars, stvars, ubPc, ubPending, ubResp, ubGErr, ubMsgc, ubMsgcClosed,
                 ubMsgcNil, ubErrcNil, ubOut, ubOutClosed, ubRet, ubDelivered,
                 ubStreamEnd, ubCancelled>>

\* case msg, ok := <-msgc with a message: outc <- msg.GetUpSummary() is next.
UBMainMsg ==
  /\ ubPc = "loop"
  /\ UBLoopCond
  /\ ~ubMsgcNil
  /\ ubMsgc # <<>>
  /\ ubPending' = GetUpSummary(Head(ubMsgc))
  /\ ubMsgc' = Tail(ubMsgc)
  /\ ubPc' = "sendout"
  /\ UNCHANGED <<dvars, usvars, stvars, ubG, ubResp, ubGErr, ubMsgcClosed, ubErrcClosed,
                 ubMsgcNil, ubErrcNil, ubOut, ubOutClosed, ubRet, ubDelivered,
                 ubStreamEnd, ubCancelled>>

\* case msg, ok := <-msgc with ok false: msgc = nil.
UBMainMsgClosed ==
  /\ ubPc = "loop"
  /\ UBLoopCond
  /\ ~ubMsgcNil
  /\ ubMsgc = <<>>
  /\ ubMsgcClosed > 0
  /\ ubMsgcNil' = TRUE
  /\ UNCHANGED <<dvars, usvars, stvars, ubPc, ubPending, ubG, ubResp, ubGErr, ubMsgc,
                 ubMsgcClosed, ubErrcClosed, ubErrcNil, ubOut, ubOutClosed, ubRet,
                 ubDelivered, ubStreamEnd, ubCancelled>>

\* case err, ok := <-errc with an error: return err, the deferred close(outc).
UBMainErr ==
  /\ ubPc = "loop"
  /\ UBLoopCond
  /\ ~ubErrcNil
  /\ ubG = "senderr"
  /\ ubRet' = ubGErr
  /\ ubG' = "closeerrc"
  /\ ubOutClosed' = ubOutClosed + 1
  /\ ubPc' = "returned"
  /\ UNCHANGED <<dvars, usvars, stvars, ubPending, ubResp, ubGErr, ubMsgc, ubMsgcClosed,
                 ubErrcClosed, ubMsgcNil, ubErrcNil, ubOut, ubDelivered,
                 ubStreamEnd, ubCancelled>>

\* case err, ok := <-errc with ok false: errc = nil.
UBMainErrClosed ==
  /\ ubPc = "loop"
  /\ UBLoopCond
  /\ ~ubErrcNil
  /\ ubErrcClosed > 0
  /\ ubErrcNil' = TRUE
  /\ UNCHANGED <<dvars, usvars, stvars, ubPc, ubPending, ubG, ubResp, ubGErr, ubMsgc,
                 ubMsgcClosed, ubErrcClosed, ubMsgcNil, ubOut, ubOutClosed, ubRet,
                 ubDelivered, ubStreamEnd, ubCancelled>>

\* The loop's condition is false: return nil, the deferred close(outc).
UBMainExit ==
  /\ ubPc = "loop"
  /\ ~UBLoopCond
  /\ ubRet' = "nil"
  /\ ubOutClosed' = ubOutClosed + 1
  /\ ubPc' = "returned"
  /\ UNCHANGED <<dvars, usvars, stvars, ubPending, ubG, ubResp, ubGErr, ubMsgc, ubMsgcClosed,
                 ubErrcClosed, ubMsgcNil, ubErrcNil, ubOut, ubDelivered,
                 ubStreamEnd, ubCancelled>>

\* outc <- msg.GetUpSummary() completes: the caller reads it.
UBConsume ==
  /\ ubPc = "sendout"
  /\ ubOut' = Append(ubOut, ubPending)
  /\ ubPending' = NilSummary
  /\ ubPc' = "loop"
  /\ UNCHANGED <<dvars, usvars, stvars, ubG, ubResp, ubGErr, ubMsgc, ubMsgcClosed, ubErrcClosed,
                 ubMsgcNil, ubErrcNil, ubOutClosed, ubRet, ubDelivered,
                 ubStreamEnd, ubCancelled>>

\* The context given to UpBuild is cancelled while UpBuild runs.
UBCancel ==
  /\ ubPc # "returned"
  /\ ~ubCancelled
  /\ ubCancelled' = TRUE
  /\ UNCHANGED <<dvars, usvars, stvars, ubPc, ubPending, ubG, ubResp, ubGErr, ubMsgc,
                 ubMsgcClosed, ubErrcClosed, ubMsgcNil, ubErrcNil, ubOut,
                 ubOutClosed, ubRet, ubDelivered, ubStreamEnd>>

UpBuildNext ==
  \/ UBConnectFail
  \/ UBConnectOk
  \/ UBOpenFail
  \/ UBOpenOk
  \/ \E kind \in MsgKinds : UBRecvMsg(kind)
  \/ UBForward
  \/ UBRecvEOF
  \/ UBRecvErr
  \/ UBCloseErrc
  \/ UBMainMsg
  \/ UBMainMsgClosed
  \/ UBMainErr
  \/ UBMainErrClosed
  \/ UBMainExit
  \/ UBConsume
  \/ UBCancel

UpBuildSpec == Init /\ [][UpBuildNext]_vars

\* -------------------------------------------------------- claims on UpBuild
\* C6: when UpBuild returns the error of a failed Recv, every message the
\* stream delivered before has been sent on the output channel, which is
\* closed.
C6_AllForwardedBeforeError ==
  (ubPc = "returned" /\ ubRet = "recv") =>
    /\ ubOut = Summaries(ubDelivered)
    /\ ubOutClosed = 1

\* C7: after n messages and end-of-stream, with a caller that keeps reading,
\* UpBuild does not block; when it has returned, the output channel carried the
\* n summaries in order, is closed, and the error is nil.
C7_AllForwardedThenNil ==
  /\ (ubStreamEnd = "eof" /\ ubPc # "returned") =>
       ENABLED (UpBuildNext /\ UNCHANGED ubCancelled)
  /\ (ubStreamEnd = "eof" /\ ubPc = "returned") =>
       /\ ubRet = "nil"
       /\ ubOut = Summaries(ubDelivered)
       /\ ubOutClosed = 1

\* UpBuild returned after a stream of two or more messages, all summaries,
\* and end-of-stream.
C7_Witness ==
  /\ ubStreamEnd = "eof"
  /\ ubPc = "returned"
  /\ Len(ubDelivered) >= 2
  /\ \A k \in 1..Len(ubDelivered) : ubDelivered[k].kind = "summary"
  /\ Len(ubOut) = Len(ubDelivered)

\* C9: when UpBuild has returned, it has closed the output channel exactly
\* once and has one error value, on every path.
C9_ClosedOnceOnEveryPath ==
  ubPc = "returned" => (ubOutClosed = 1 /\ ubRet # "none")

\* Weak fairness of every step UpBuild and its goroutine take on their own and
\* of the caller's reads of outc.  Nothing is asked of the server or of the
\* context.
UpBuildFairness ==
  /\ WF_vars(UBConnectOk \/ UBConnectFail)
  /\ WF_vars(UBOpenOk \/ UBOpenFail)
  /\ WF_vars(UBForward)
  /\ WF_vars(UBCloseErrc)
  /\ WF_vars(UBMainMsg)
  /\ WF_vars(UBMainMsgClosed)
  /\ WF_vars(UBMainErr)
  /\ WF_vars(UBMainErrClosed)
  /\ WF_vars(UBMainExit)
  /\ WF_vars(UBConsume)

UpBuildFairSpec == Init /\ [][UpBuildNext]_vars /\ UpBuildFairness

\* C11: once the context given to UpBuild is cancelled, UpBuild eventually
\* returns, whatever the server does.
C11_CancelUnblocksUpBuild ==
  ubCancelled ~> (ubPc = "returned")

\* =============================================================== UpStream
\* connect(c) fails: UpStream returns the error.
USConnectFail ==
  /\ usPc = "connect"
  /\ usPc' = "returned"
  /\ usRet' = "connect"
  /\ UNCHANGED <<dvars, ubvars, stvars, usF, usFPending, usR, usRMsg, usDoneClosed,
                 usErrcClosed, usMsgcClosed, usOutClosed, usNReq, usReqClosed,
                 usCloseSent, usSendFailed, usDelivered, usStreamEnd, usOut,
                 usCancelled>>

\* connect(c) succeeds: msgc, and the goroutine ranging over it.
USConnectOk ==
  /\ usPc = "connect"
  /\ usPc' = "open"
  /\ usF' = "range"
  /\ UNCHANGED <<dvars, ubvars, stvars, usFPending, usR, usRMsg, usDoneClosed,
                 usErrcClosed, usMsgcClosed, usOutClosed, usNReq, usReqClosed,
                 usCloseSent, usSendFailed, usDelivered, usStreamEnd, usOut,
                 usRet, usCancelled>>

\* up_stream: rpc.UpStream fails; the error is returned, nothing is deferred.
USOpenFail ==
  /\ usPc = "open"
  /\ usPc' = "returned"
  /\ usRet' = "open"
  /\ UNCHANGED <<dvars, ubvars, stvars, usF, usFPending, usR, usRMsg, usDoneClosed,
                 usErrcClosed, usMsgcClosed, usOutClosed, usNReq, usReqClosed,
                 usCloseSent, usSendFailed, usDelivered, usStreamEnd, usOut,
                 usCancelled>>

\* up_stream: rpc.UpStream succeeds: done, errc, the defer, the receive goroutine.
USOpenOk ==
  /\ usPc = "open"
  /\ usPc' = "loop"
  /\ usR' = "recv"
  /\ UNCHANGED <<dvars, ubvars, stvars, usF, usFPending, usRMsg, usDoneClosed,
                 usErrcClosed, usMsgcClosed, usOutClosed, usNReq, usReqClosed,
                 usCloseSent, usSendFailed, usDelivered, usStreamEnd, usOut,
                 usRet, usCancelled>>

\* case msg, ok := <-send with a request: stream.Send(req) is next.
USMainReq ==
  /\ usPc = "loop"
  /\ ~usReqClosed
  /\ usNReq < MaxReq
  /\ usNReq' = usNReq + 1
  /\ usPc' = "sending"
  /\ UNCHANGED <<dvars, ubvars, stvars, usF, usFPending, usR, usRMsg, usDoneClosed,
                 usErrcClosed, usMsgcClosed, usOutClosed, usReqClosed,
                 usCloseSent, usSendFailed, usDelivered, usStreamEnd, usOut,
                 usRet, usCancelled>>

\* stream.Send(req) returns nil.
USSendOk ==
  /\ usPc = "sending"
  /\ usPc' = "loop"
  /\ UNCHANGED <<dvars, ubvars, stvars, usF, usFPending, usR, usRMsg, usDoneClosed,
                 usErrcClosed, usMsgcClosed, usOutClosed, usNReq, usReqClosed,
                 usCloseSent, usSendFailed, usDelivered, usStreamEnd, usOut,
                 usRet, usCancelled>>

\* stream.Send(req) returns an error: return it, the deferred function is next.
USSendFail ==
  /\ usPc = "sending"
  /\ usSendFailed' = TRUE
  /\ usRet' = "send"
  /\ usPc' = "closesend"
  /\ UNCHANGED <<dvars, ubvars, stvars, usF, usFPending, usR, usRMsg, usDoneClosed,
                 usErrcClosed, usMsgcClosed, usOutClosed, usNReq, usReqClosed,
                 usCloseSent, usDelivered, usStreamEnd, usOut, usCancelled>>

\* case msg, ok := <-send with ok false: return nil.
USMainReqClosed ==
  /\ usPc = "loop"
  /\ usReqClosed
  /\ usRet' = "nil"
  /\ usPc' = "closesend"
  /\ UNCHANGED <<dvars, ubvars, stvars, usF, usFPending, usR, usRMsg, usDoneClosed,
                 usErrcClosed, usMsgcClosed, usOutClosed, usNReq, usReqClosed,
                 usCloseSent, usSendFailed, usDelivered, usStreamEnd, usOut,
                 usCancelled>>

\* case err := <-errc: return err; the receive goroutine's errc <- completes
\* and it returns.
USMainErr ==
  /\ usPc = "loop"
  /\ usR = "senderr"
  /\ usR' = "exit"
  /\ usRet' = "recv"
  /\ usPc' = "closesend"
  /\ UNCHANGED <<dvars, ubvars, stvars, usF, usFPending, usRMsg, usDoneClosed,
                 usErrcClosed, usMsgcClosed, usOutClosed, usNReq, usReqClosed,
                 usCloseSent, usSendFailed, usDelivered, usStreamEnd, usOut,
                 usCancelled>>

\* The deferred function: stream.CloseSend().
USCloseSend ==
  /\ usPc = "closesend"
  /\ usCloseSent' = TRUE
  /\ usPc' = "waitdone"
  /\ UNCHANGED <<dvars, ubvars, stvars, usF, usFPending, usR, usRMsg, usDoneClosed,
                 usErrcClosed, usMsgcClosed, usOutClosed, usNReq, usReqClosed,
                 usSendFailed, usDelivered, usStreamEnd, usOut, usRet,
                 usCancelled>>

\* A <-done that yields although done is open.
USDoneReadyAtOnce == TRUE

\* <-done yields when done is closed.
USDoneReady == usDoneClosed > 0

\* The deferred function: <-done, close(recv), close(errc); up_stream and
\* UpStream return.
USWaitDone ==
  /\ usPc = "waitdone"
  /\ USDoneReady
  /\ usMsgcClosed' = usMsgcClosed + 1
  /\ usErrcClosed' = usErrcClosed + 1
  /\ usPc' = "returned"
  /\ UNCHANGED <<dvars, ubvars, stvars, usF, usFPending, usR, usRMsg, usDoneClosed,
                 usOutClosed, usNReq, usReqClosed, usCloseSent, usSendFailed,
                 usDelivered, usStreamEnd, usOut, usRet, usCancelled>>

\* The receive goroutine: stream.Recv() returns a message.
USRecvMsg(kind) ==
  /\ usR = "recv"
  /\ Len(usDelivered) < MaxStream
  /\ usRMsg' = Message(Len(usDelivered) + 1, kind)
  /\ usDelivered' = Append(usDelivered, usRMsg')
  /\ usR' = "sendmsg"
  /\ UNCHANGED <<dvars, ubvars, stvars, usPc, usF, usFPending, usDoneClosed,
                 usErrcClosed, usMsgcClosed, usOutClosed, usNReq, usReqClosed,
                 usCloseSent, usSendFailed, usStreamEnd, usOut, usRet,
                 usCancelled>>

\* The receive goroutine: stream.Recv() returns io.EOF; close(done), return.
USRecvEOF ==
  /\ usR = "recv"
  /\ usStreamEnd' = "eof"
  /\ usDoneClosed' = usDoneClosed + 1
  /\ usR' = "exit"
  /\ UNCHANGED <<dvars, ubvars, stvars, usPc, usF, usFPending, usRMsg, usErrcClosed,
                 usMsgcClosed, usOutClosed, usNReq, usReqClosed, usCloseSent,
                 usSendFailed, usDelivered, usOut, usRet, usCancelled>>

\* The receive goroutine: stream.Recv() returns an error; errc <- is next.
USRecvErr ==
  /\ usR = "recv"
  /\ usStreamEnd' = "err"
  /\ usR' = "senderr"
  /\ UNCHANGED <<dvars, ubvars, stvars, usPc, usF, usFPending, usRMsg, usDoneClosed,
                 usErrcClosed, usMsgcClosed, usOutClosed, usNReq, usReqClosed,
                 usCloseSent, usSendFailed, usDelivered, usOut, usRet,
                 usCancelled>>

\* recv <- m meets the range over msgc: a summary goes on to outc, a message
\* without one is skipped.
USForward ==
  /\ usR = "sendmsg"
  /\ usF = "range"
  /\ usR' = "recv"
  /\ usRMsg' = NoMessage
  /\ usFPending' = GetUpSummary(usRMsg)
  /\ usF' = IF GetUpSummary(usRMsg) # NilSummary THEN "sendout" ELSE "range"
  /\ UNCHANGED <<dvars, ubvars, stvars, usPc, usDoneClosed, usErrcClosed, usMsgcClosed,
                 usOutClosed, usNReq, usReqClosed, usCloseSent, usSendFailed,
                 usDelivered, usStreamEnd, usOut, usRet, usCancelled>>

\* outc <- summary completes: the caller reads it.
USConsume ==
  /\ usF = "sendout"
  /\ usOut' = Append(usOut, usFPending)
  /\ usFPending' = NilSummary
  /\ usF' = "range"
  /\ UNCHANGED <<dvars, ubvars, stvars, usPc, usR, usRMsg, usDoneClosed, usErrcClosed,
                 usMsgcClosed, usOutClosed, usNReq, usReqClosed, usCloseSent,
                 usSendFailed, usDelivered, usStreamEnd, usRet, usCancelled>>

\* The range over msgc ends, msgc being closed: close(outc).
USFClose ==
  /\ usF = "range"
  /\ usMsgcClosed > 0
  /\ usOutClosed' = usOutClosed + 1
  /\ usF' = "exit"
  /\ UNCHANGED <<dvars, ubvars, stvars, usPc, usFPending, usR, usRMsg, usDoneClosed,
                 usErrcClosed, usMsgcClosed, usNReq, usReqClosed, usCloseSent,
                 usSendFailed, usDelivered, usStreamEnd, usOut, usRet,
                 usCancelled>>

\* The caller closes the request channel.
USCloseReq ==
  /\ ~usReqClosed
  /\ usPc # "returned"
  /\ usReqClosed' = TRUE
  /\ UNCHANGED <<dvars, ubvars, stvars, usPc, usF, usFPending, usR, usRMsg,
                 usDoneClosed, usErrcClosed, usMsgcClosed, usOutClosed, usNReq,
                 usCloseSent, usSendFailed, usDelivered, usStreamEnd, usOut,
                 usRet, usCancelled>>

\* The context given to UpStream is cancelled while UpStream runs.
USCancel ==
  /\ ~usCancelled
  /\ usPc # "returned"
  /\ usCancelled' = TRUE
  /\ UNCHANGED <<dvars, ubvars, stvars, usPc, usF, usFPending, usR, usRMsg,
                 usDoneClosed, usErrcClosed, usMsgcClosed, usOutClosed, usNReq,
                 usReqClosed, usCloseSent, usSendFailed, usDelivered,
                 usStreamEnd, usOut, usRet>>

UpStreamNext ==
  \/ USConnectFail
  \/ USConnectOk
  \/ USOpenFail
  \/ USOpenOk
  \/ USMainReq
  \/ USSendOk
  \/ USSendFail
  \/ USMainReqClosed
  \/ USMainErr
  \/ USCloseSend
  \/ USWaitDone
  \/ \E kind \in MsgKinds : USRecvMsg(kind)
  \/ USRecvEOF
  \/ USRecvErr
  \/ USForward
  \/ USConsume
  \/ USFClose
  \/ USCloseReq
  \/ USCancel

UpStreamSpec == Init /\ [][UpStreamNext]_vars

\* Weak fairness of every step UpStream and its goroutines take on their own,
\* of the caller's reads of outc, and of Recv's return once a Send has failed
\* (the stream is then over).  Nothing is asked of the caller's requests, of
\* the server while the stream is sound, or of the context.
UpStreamFairness ==
  /\ WF_vars(USConnectOk \/ USConnectFail)
  /\ WF_vars(USOpenOk \/ USOpenFail)
  /\ WF_vars(USSendOk \/ USSendFail)
  /\ WF_vars(USMainReqClosed)
  /\ WF_vars(USMainErr)
  /\ WF_vars(USCloseSend)
  /\ WF_vars(USWaitDone)
  /\ WF_vars(USForward)
  /\ WF_vars(USConsume)
  /\ WF_vars(USFClose)
  /\ WF_vars(usSendFailed /\ (USRecvEOF \/ USRecvErr))

UpStreamFairSpec == Init /\ [][UpStreamNext]_vars /\ UpStreamFairness

\* ------------------------------------------------------- claims on UpStream
\* C8: UpStream eventually returns once Recv has seen end-of-stream and the
\* request channel is closed, once Recv has failed, and once Send has failed.
C8_UpStreamCompletes ==
  ((usStreamEnd = "eof" /\ usReqClosed) \/ usStreamEnd = "err" \/ usSendFailed)
    ~> (usPc = "returned")

\* C10: once the context is cancelled while the send loop is in the middle of
\* the request sequence, UpStream eventually returns and the receive goroutine
\* exits.  The runs in which Recv or Send fails are C8's and are set aside:
\* what is asked here is asked of the sound stream alone.
C10_CancelStopsLoops ==
  (usCancelled /\ usPc \in {"loop", "sending"} /\ ~usReqClosed)
    ~> \/ usPc = "returned" /\ usR = "exit"
       \/ usStreamEnd = "err"
       \/ usSendFailed

\* C12: when UpStream has returned, the goroutines it started have exited and
\* the channels it made for them are closed.
C12_TasksJoinedAtReturn ==
  usPc = "returned" =>
    /\ usF \in {"idle", "exit"}
    /\ usR \in {"idle", "exit"}
    /\ usF # "idle" => usMsgcClosed = 1
    /\ usR # "idle" => (usDoneClosed = 1 /\ usErrcClosed = 1)

\* ====================================================== Store.DeleteBuild
\* A delete that empties the whole Data.
WithoutAll(data, id) == [k \in {} |-> Corrupt]

\* delete(cfgmap.Data, buildID)
Without(data, id) == [k \in DOMAIN data \ {id} |-> data[k]]

\* ConfigMaps(ns).Get(appName) fails: no such config map, or the API fails.
DBGetFail(app, id) ==
  /\ sPc = "idle"
  /\ sApp' = app
  /\ sId' = id
  /\ sErr' = "get"
  /\ sPc' = "done"
  /\ UNCHANGED <<dvars, ubvars, usvars, store, sCfg, sObj, sUpdates, sBefore>>

\* ConfigMaps(ns).Get(appName) returns the config map.
DBGetOk(app, id) ==
  /\ sPc = "idle"
  /\ store[app] # NoMap
  /\ sApp' = app
  /\ sId' = id
  /\ sCfg' = store[app]
  /\ sPc' = "got"
  /\ UNCHANGED <<dvars, ubvars, usvars, store, sObj, sErr, sUpdates, sBefore>>

\* cfgmap.Data[buildID] is missing: the not-found error.
DBNotFound ==
  /\ sPc = "got"
  /\ sId \notin DOMAIN sCfg
  /\ sErr' = "notfound"
  /\ sPc' = "done"
  /\ UNCHANGED <<dvars, ubvars, usvars, store, sApp, sId, sCfg, sObj, sUpdates,
                 sBefore>>

\* storage.DecodeString(build) fails: return nil, err.
DBDecodeFail ==
  /\ sPc = "got"
  /\ sId \in DOMAIN sCfg
  /\ ~DecodeString(sCfg[sId]).ok
  /\ sErr' = "decode"
  /\ sPc' = "done"
  /\ UNCHANGED <<dvars, ubvars, usvars, store, sApp, sId, sCfg, sObj, sUpdates,
                 sBefore>>

\* storage.DecodeString(build) succeeds; delete(cfgmap.Data, buildID).
DBDecodeOk ==
  /\ sPc = "got"
  /\ sId \in DOMAIN sCfg
  /\ DecodeString(sCfg[sId]).ok
  /\ sObj' = DecodeString(sCfg[sId]).obj
  /\ sCfg' = Without(sCfg, sId)
  /\ sPc' = "update"
  /\ UNCHANGED <<dvars, ubvars, usvars, store, sApp, sId, sErr, sUpdates,
                 sBefore>>

\* ConfigMaps(ns).Update(cfgmap) succeeds: return obj, nil.
DBUpdateOk ==
  /\ sPc = "update"
  /\ store' = [store EXCEPT ![sApp] = sCfg]
  /\ sUpdates' = sUpdates + 1
  /\ sPc' = "done"
  /\ UNCHANGED <<dvars, ubvars, usvars, sApp, sId, sCfg, sObj, sErr, sBefore>>

\* ConfigMaps(ns).Update(cfgmap) fails: return obj, err.
DBUpdateFail ==
  /\ sPc = "update"
  /\ sUpdates' = sUpdates + 1
  /\ sErr' = "update"
  /\ sPc' = "done"
  /\ UNCHANGED <<dvars, ubvars, usvars, store, sApp, sId, sCfg, sObj, sBefore>>

StoreNext ==
  \/ \E app \in Apps, id \in BuildIDs : DBGetFail(app, id)
  \/ \E app \in Apps, id \in BuildIDs : DBGetOk(app, id)
  \/ DBNotFound
  \/ DBDecodeFail
  \/ DBDecodeOk
  \/ DBUpdateOk
  \/ DBUpdateFail

\* A call of DeleteBuild on any store, the client's operations at rest.
StoreCallInit == DisplayInit /\ UpBuildInit /\ UpStreamInit /\ StoreInit

StoreSpec == StoreCallInit /\ [][StoreNext]_vars

\* ---------------------------------------------------- claims on DeleteBuild
\* The config maps as they were, with build id taken out of application app.
StoreMinus(app, id) ==
  [a \in Apps |->
     IF a = app THEN [k \in DOMAIN sBefore[a] \ {id} |-> sBefore[a][k]]
     ELSE sBefore[a]]

\* C14, as stated: whenever the config map Get returned holds buildID,
\* DeleteBuild leaves the store with that build removed and returns the object; whenever it does
\* not, DeleteBuild returns the not-found error and issues no update.
C14_DeletesExactly ==
  (sPc = "done" /\ sCfg # NoMap) =>
     IF sId \in DOMAIN sBefore[sApp]
     THEN /\ store = StoreMinus(sApp, sId)
          /\ sObj # NoObject
     ELSE /\ sErr = "notfound"
          /\ store = sBefore
          /\ sUpdates = 0

\* C14, amended: that holds when Get succeeds, the entry decodes and Update
\* succeeds; in every other case the store is as it was, an error is returned,
\* and an update was issued only if the one issued failed.
C14_DeletesExactlyOnSuccess ==
  sPc = "done" =>
    /\ sErr = "nil" =>
         /\ sId \in DOMAIN sBefore[sApp]
         /\ store = StoreMinus(sApp, sId)
         /\ EncodeToString(sObj) = sBefore[sApp][sId]
         /\ sUpdates = 1
    /\ sErr # "nil" =>
         /\ store = sBefore
         /\ sUpdates = (IF sErr = "update" THEN 1 ELSE 0)
    /\ sErr = "notfound" <=>
         (sCfg # NoMap /\ sId \notin DOMAIN sBefore[sApp])
    /\ sErr \in {"get", "decode", "notfound"} => sObj = NoObject

\* DeleteBuild removed one of two builds of an application, and the other
\* application has a config map too.
C14_Witness ==
  /\ sPc = "done"
  /\ sErr = "nil"
  /\ DOMAIN sBefore[sApp] = BuildIDs
  /\ \E app \in Apps \ {sApp} : sBefore[app] # NoMap /\ DOMAIN sBefore[app] # {}

\* ========================================================= the whole client
\* The three operations share no state; each is checked under its own
\* specification, with the other two at rest.
\* One operation per run: a behaviour is a call of Display, of UpBuild or of
\* UpStream, the other operations staying as constructed.
ClientNext ==
  \/ UpBuildInit /\ UpStreamInit /\ StoreIdle /\ DisplayNext
  \/ DisplayInit /\ UpStreamInit /\ StoreIdle /\ UpBuildNext
  \/ DisplayInit /\ UpBuildInit /\ StoreIdle /\ UpStreamNext

ClientSpec == Init /\ [][ClientNext]_vars

\* ------------------------------------------------ claims on all operations
\* C18: no channel of Display, UpBuild or UpStream is closed twice, and no
\* goroutine is at a send on a channel that is closed.
C18_NoDoubleCloseNoSendAfterClose ==
  /\ crashed # "panic"
  /\ doneClosed <= 1
  /\ \A i \in 1..Len(rs) : rs[i].closed <= 1
  /\ dpc = "send" => rs[sendTo].closed = 0
  /\ ubMsgcClosed <= 1 /\ ubErrcClosed <= 1 /\ ubOutClosed <= 1
  /\ ubG = "sendmsg" => ubMsgcClosed = 0
  /\ ubG = "senderr" => ubErrcClosed = 0
  /\ ubPc = "sendout" => ubOutClosed = 0
  /\ usDoneClosed <= 1 /\ usMsgcClosed <= 1
  /\ usErrcClosed <= 1 /\ usOutClosed <= 1
  /\ usR = "sendmsg" => usMsgcClosed = 0
  /\ usR = "senderr" => usErrcClosed = 0
  /\ usF = "sendout" => usOutClosed = 0

\* UpStream returned after the stream ended: done, recv, errc and the output
\* channel are closed, and summaries went through recv and the output channel.
C18_Witness ==
  /\ usPc = "returned"
  /\ usDoneClosed = 1
  /\ usMsgcClosed = 1
  /\ usErrcClosed = 1
  /\ usOutClosed = 1
  /\ usOut # <<>>

\* The summaries among a sequence of summaries and nils.
IsSummary(s) == s # NilSummary
NonNil(seq) == SelectSeq(seq, IsSummary)

\* What a goroutine at a send holds: the value, or nothing.
Held(atSend, v) == IF atSend THEN <<v>> ELSE <<>>

\* C19: order is kept end to end.  For every stage, the codes received for it
\* are, in order, those its renderer has read, then those in its channel, then
\* the one the main loop is sending; the codes forwarded are the ones received.
\* For UpBuild (UpStream), the summaries of the messages the stream delivered
\* (those that are not nil) are, in order, those put on the output channel,
\* then those still on their way.
C19_OrderPreserved ==
  /\ \A i \in 1..Len(rs) :
       /\ rs[i].rcv = rs[i].got \o rs[i].buf
                        \o Held(dpc = "send" /\ sendTo = i, sendCode)
       /\ rs[i].fwd = rs[i].got \o rs[i].buf
  /\ Summaries(ubDelivered) =
       ubOut \o Held(ubPc = "sendout", ubPending) \o Summaries(ubMsgc)
         \o Held(ubG = "sendmsg", GetUpSummary(ubResp))
  /\ NonNil(Summaries(usDelivered)) =
       usOut \o Held(usF = "sendout", usFPending)
         \o NonNil(Held(usR = "sendmsg", GetUpSummary(usRMsg)))

\* A renderer read two different codes of its stage, PENDING and then the
\* terminal one, and a third one is on its way.
C19_Witness ==
  \E i \in 1..Len(rs) :
    /\ Len(rs[i].got) = 2
    /\ rs[i].got[1] # rs[i].got[2]
    /\ Len(rs[i].rcv) = 3

\* C20: every value UpBuild or UpStream puts on the output channel, which is
\* Display's summaries channel, is a summary: a message with another payload
\* puts nothing there, so Display never dereferences nil.
C20_OnlySummariesReachDisplay ==
  /\ \A k \in 1..Len(ubOut) : IsSummary(ubOut[k])
  /\ \A k \in 1..Len(usOut) : IsSummary(usOut[k])

Next == DisplayNext \/ UpBuildNext \/ UpStreamNext

Spec == Init /\ [][Next]_vars

====
